---- MODULE Spec2Model ----
(***************************************************************************)
(* Model of the search core of labonneboite:                               *)
(*   - Fetcher.get_companies (common/search.py): count, window clamping,   *)
(*     fetch, alternative occupations and alternative radii;               *)
(*   - get_companies_for_naf_codes / build_json_body_elastic_search /      *)
(*     retrieve_companies_from_elastic_search: sort clauses and the sort   *)
(*     key the distance is read from;                                      *)
(*   - shuffle_companies: bucketing and the day-seeded shuffle;            *)
(*   - PaginationManager / Page (web/pagination.py).                       *)
(* Each component is a record-valued variable; every specification below   *)
(* draws the inputs of one component in its Init and leaves the others     *)
(* idle.                                                                   *)
(***************************************************************************)
EXTENDS Integers, Sequences, FiniteSets, TLC

VARIABLES fetcher, es_count, query, shuffle, pm

vars == <<fetcher, es_count, query, shuffle, pm>>

(***************************************************************************)
(* Bounds of the model.                                                    *)
(***************************************************************************)
MinWindow == 2        \* requested from/to range over -MinWindow..
MaxFrom == 31         \* largest requested from
MaxTo == 42           \* largest requested to
MaxCount == 32        \* largest primary count in the window specification
MaxLowCount == 10     \* largest primary count in the fallback specification
MaxTierCount == 4     \* largest count of a radius tier
MaxAltCount == 1      \* largest count of an alternative occupation
MaxCompanies == 3     \* longest candidate list handed to shuffle_companies
MaxMatches == 3       \* most offices matched by one fetch query
MaxPmCount == 125     \* largest count given to a PaginationManager
MaxPmFrom == 75       \* largest current from given to a PaginationManager
MaxSpan == 11         \* requested to ranges up to from + MaxSpan on a results page
MaxBucketLen == 11    \* longest bucket the swap indices are examined for
MaxHeadcount == 4     \* largest numeric headcount input
MaxHcCount == 2       \* largest primary count in the headcount specification

(***************************************************************************)
(* Configuration (labonneboite.conf.settings, read-only).                  *)
(***************************************************************************)
PAGINATION_COMPANIES_PER_PAGE == 10
PAGINATION_MAX_PAGES == 10
HEADCOUNT_WHATEVER == 1
HEADCOUNT_SMALL_ONLY == 2
HEADCOUNT_BIG_ONLY == 3
HEADCOUNT_SMALL_ONLY_MAXIMUM == 12
HEADCOUNT_BIG_ONLY_MINIMUM == 13

\* mapping_util.ROME_CODES: the known occupation codes.
ROME_CODES == {"R1", "R2", "R3"}

\* settings.ROME_MOBILITIES: occupation -> list of neighbouring occupations.
\* The list of R1 names R1 itself, which get_companies has to skip.
ROME_MOBILITIES ==
    [r \in ROME_CODES |->
        CASE r = "R1" -> <<"R2", "R1", "R3">>
          [] r = "R2" -> <<"R1">>
          [] OTHER    -> << >>]

\* The radius tiers get_companies walks through, in order.
DISTANCE_TIERS ==
    << [distance |-> 30,   label |-> "30 km"],
       [distance |-> 50,   label |-> "50 km"],
       [distance |-> 3000, label |-> "France entiere"] >>

\* The radii a primary search is run at in the model.
PrimaryDistances == {10, 30}

Radii == PrimaryDistances \cup {DISTANCE_TIERS[k].distance : k \in 1..Len(DISTANCE_TIERS)}

(***************************************************************************)
(* Fetcher.get_companies: the five window rules, applied in order.         *)
(***************************************************************************)
\* The rules without the realignment of a misaligned from.
ClampWindow_NoAlign(from, to, count) ==
    LET r1 == IF from < 1 THEN [from_number |-> 1, to_number |-> 10]
                          ELSE [from_number |-> from, to_number |-> to]
        r3 == IF r1.to_number > count + 1
                 THEN [r1 EXCEPT !.to_number = count + 1] ELSE r1
        r4 == IF r3.to_number < r3.from_number
                 THEN [from_number |-> 1, to_number |-> 10] ELSE r3
        r5 == IF r4.to_number - r4.from_number > PAGINATION_COMPANIES_PER_PAGE
                 THEN [from_number |-> 1, to_number |-> 10] ELSE r4
    IN  r5

\* The rules without the reset of a window whose to is below its from.
ClampWindow_NoReset(from, to, count) ==
    LET r1 == IF from < 1 THEN [from_number |-> 1, to_number |-> 10]
                          ELSE [from_number |-> from, to_number |-> to]
        r2 == IF (r1.from_number - 1) % 10 # 0
                 THEN [from_number |-> 1, to_number |-> 10] ELSE r1
        r3 == IF r2.to_number > count + 1
                 THEN [r2 EXCEPT !.to_number = count + 1] ELSE r2
        r5 == IF r3.to_number - r3.from_number > PAGINATION_COMPANIES_PER_PAGE
                 THEN [from_number |-> 1, to_number |-> 10] ELSE r3
    IN  r5

ClampWindow(from, to, count) ==
    LET r1 == IF from < 1 THEN [from_number |-> 1, to_number |-> 10]
                          ELSE [from_number |-> from, to_number |-> to]
        r2 == IF (r1.from_number - 1) % 10 # 0
                 THEN [from_number |-> 1, to_number |-> 10] ELSE r1
        r3 == IF r2.to_number > count + 1
                 THEN [r2 EXCEPT !.to_number = count + 1] ELSE r2
        r4 == IF r3.to_number < r3.from_number
                 THEN [from_number |-> 1, to_number |-> 10] ELSE r3
        r5 == IF r4.to_number - r4.from_number > PAGINATION_COMPANIES_PER_PAGE
                 THEN [from_number |-> 1, to_number |-> 10] ELSE r4
    IN  r5

(***************************************************************************)
(* Fetcher.get_company_count: the count the index reports for one          *)
(* occupation at one radius.                                               *)
(***************************************************************************)
get_company_count(es, rome, distance) == es[<<rome, distance>>]

(***************************************************************************)
(* Fetcher.get_companies: alternative occupations.                         *)
(***************************************************************************)
\* Every mobility code is counted, the primary one included.
AlternativeRomeCodes_KeepPrimary(es, rome, distance) ==
    LET mob == ROME_MOBILITIES[rome]
        keys == {mob[k] : k \in 1..Len(mob)}
    IN  [r \in keys |-> get_company_count(es, r, distance)]

AlternativeRomeCodes(es, rome, distance) ==
    LET mob == ROME_MOBILITIES[rome]
        keys == {mob[k] : k \in 1..Len(mob)} \ {rome}
    IN  [r \in keys |-> get_company_count(es, r, distance)]

(***************************************************************************)
(* Fetcher.get_companies: alternative radii. The loop over the tiers from  *)
(* tier k on, last_count being the best count recorded so far and acc the  *)
(* entries of the ordered dictionary in insertion order.                   *)
(***************************************************************************)
RECURSIVE TierLoop(_, _, _, _, _)
TierLoop(es, rome, k, last_count, acc) ==
    IF k > Len(DISTANCE_TIERS) THEN acc
    ELSE LET tier == DISTANCE_TIERS[k]
             company_count == get_company_count(es, rome, tier.distance)
         IN  IF company_count > last_count
               THEN TierLoop(es, rome, k + 1, company_count,
                             Append(acc, [distance |-> tier.distance,
                                          label |-> tier.label,
                                          count |-> company_count]))
               ELSE TierLoop(es, rome, k + 1, last_count, acc)

\* The loop started from the primary count instead of 0.
AlternativeDistances_FromPrimary(es, rome, distance) ==
    TierLoop(es, rome, 1, get_company_count(es, rome, distance), << >>)

\* The loop recording a tier that ties the best count so far.
RECURSIVE TierLoopTies(_, _, _, _, _)
TierLoopTies(es, rome, k, last_count, acc) ==
    IF k > Len(DISTANCE_TIERS) THEN acc
    ELSE LET tier == DISTANCE_TIERS[k]
             company_count == get_company_count(es, rome, tier.distance)
         IN  IF company_count >= last_count /\ company_count > 0
               THEN TierLoopTies(es, rome, k + 1, company_count,
                                 Append(acc, [distance |-> tier.distance,
                                              label |-> tier.label,
                                              count |-> company_count]))
               ELSE TierLoopTies(es, rome, k + 1, last_count, acc)

AlternativeDistances_Ties(es, rome, distance) ==
    TierLoopTies(es, rome, 1, 0, << >>)

AlternativeDistances(es, rome, distance) ==
    TierLoop(es, rome, 1, 0, << >>)

(***************************************************************************)
(* The headcount input. A headcount is [kind, value]: kind "none" is None  *)
(* (the keyword absent), "text" a string that is no number, "number" an    *)
(* integer or a numeric string of that value.                              *)
(***************************************************************************)
HeadcountNone == [kind |-> "none", value |-> 0]
HeadcountText == [kind |-> "text", value |-> 0]
HeadcountNumber(n) == [kind |-> "number", value |-> n]

Headcounts ==
    {HeadcountNone, HeadcountText} \cup {HeadcountNumber(n) : n \in 0..MaxHeadcount}

\* int(x): TypeError on None, ValueError on a string that is no number.
IntOf(headcount) ==
    CASE headcount.kind = "none" -> [error |-> "TypeError", value |-> 0]
      [] headcount.kind = "text" -> [error |-> "ValueError", value |-> 0]
      [] OTHER -> [error |-> "none", value |-> headcount.value]

NoFilter == [op |-> "none", size |-> 0]

\* The outcome of a path that has not run.
PathNotRun == [called |-> FALSE, error |-> "none", filter |-> NoFilter]

\* _get_companies_from_api: headcount_filter = int(headcount), with
\* TypeError and ValueError both caught.
ApiHeadcountFilter(headcount) ==
    LET r == IntOf(headcount)
    IN  IF r.error = "none" THEN HeadcountNumber(r.value)
                            ELSE HeadcountNumber(HEADCOUNT_WHATEVER)

\* build_json_body_elastic_search: the headcount filter of the query.
\* int(headcount_filter) is tried with ValueError caught; a TypeError
\* leaves the function.
BuildHeadcountFilter(headcount_filter) ==
    LET r == IntOf(headcount_filter)
        n == IF r.error = "ValueError" THEN HEADCOUNT_WHATEVER ELSE r.value
        \* 0 stands for None
        max_office_size == IF n = HEADCOUNT_SMALL_ONLY
                             THEN HEADCOUNT_SMALL_ONLY_MAXIMUM ELSE 0
        min_office_size == IF n = HEADCOUNT_SMALL_ONLY THEN 0
                           ELSE IF n = HEADCOUNT_BIG_ONLY
                             THEN HEADCOUNT_BIG_ONLY_MINIMUM ELSE 0
    IN  IF r.error = "TypeError"
          THEN [called |-> TRUE, error |-> "TypeError", filter |-> NoFilter]
          ELSE [called |-> TRUE, error |-> "none",
                filter |-> IF max_office_size # 0
                             THEN [op |-> "lte", size |-> max_office_size]
                           ELSE IF min_office_size # 0
                             THEN [op |-> "gte", size |-> min_office_size]
                           ELSE NoFilter]

\* Fetcher.get_company_count -> count_companies_for_naf_codes: the raw
\* headcount goes to build_json_body_elastic_search.
CountPath(headcount) == BuildHeadcountFilter(headcount)

\* Fetcher.get_companies_for_rome_and_naf_codes -> _get_companies_from_api
\* -> get_companies_for_naf_codes: the headcount is converted first.
FetchPath(headcount) == BuildHeadcountFilter(ApiHeadcountFilter(headcount))

(***************************************************************************)
(* Fetcher.__init__: the fields of a constructed Fetcher.                  *)
(* from/to are int(kwargs.get(..) or default): an absent value gives the   *)
(* default, a numeric string such as "0" or "-1" gives that number.        *)
(* company_count is not assigned before get_companies; it is read only     *)
(* once pc = "done".                                                       *)
(***************************************************************************)
NewFetcher(occupation, distance, from, to) ==
    [ pc |-> "constructed",
      occupation |-> occupation,
      distance |-> distance,
      rome |-> "None",
      from_number |-> from,
      to_number |-> to,
      requested_from |-> from,
      requested_to |-> to,
      company_count |-> 0,
      fetched |-> FALSE,
      fetch_from |-> 0,
      fetch_to |-> 0,
      alternative_rome_codes |-> << >>,
      alternative_distances |-> << >>,
      headcount |-> HeadcountNumber(HEADCOUNT_WHATEVER),
      count_path |-> PathNotRun,
      fetch_path |-> PathNotRun ]

IdleFetcher == NewFetcher("R1", 10, 1, 10)

\* A Fetcher built with the given headcount keyword.
NewFetcherWithHeadcount(occupation, distance, from, to, headcount) ==
    [NewFetcher(occupation, distance, from, to) EXCEPT !.headcount = headcount]

(***************************************************************************)
(* Fetcher.get_companies, the whole handler.                               *)
(***************************************************************************)
GetCompanies ==
    /\ fetcher.pc = "constructed"
    /\ \E located \in BOOLEAN :
         IF ~located
           THEN \* geocoding failed: LocationError is raised
                fetcher' = [fetcher EXCEPT !.pc = "LocationError"]
           ELSE IF CountPath(fetcher.headcount).error # "none"
           THEN \* the first get_company_count raises
                fetcher' = [fetcher EXCEPT
                              !.pc = CountPath(fetcher.headcount).error,
                              !.rome = fetcher.occupation,
                              !.count_path = CountPath(fetcher.headcount)]
           ELSE LET rome == fetcher.occupation
                    count == get_company_count(es_count, rome, fetcher.distance)
                    w == ClampWindow(fetcher.from_number, fetcher.to_number, count)
                    fetch == count # 0
                    \* build_json_body_elastic_search raises on to < from
                    invalid == fetch /\ w.to_number # 0
                                     /\ w.to_number < w.from_number
                    low == count < 10
                IN  fetcher' =
                      [fetcher EXCEPT
                         !.pc = IF invalid THEN "InvalidWindow" ELSE "done",
                         !.rome = rome,
                         !.company_count = count,
                         !.from_number = w.from_number,
                         !.to_number = w.to_number,
                         !.fetched = fetch,
                         !.fetch_from = IF fetch THEN w.from_number ELSE 0,
                         !.fetch_to = IF fetch THEN w.to_number ELSE 0,
                         !.count_path = CountPath(fetcher.headcount),
                         !.fetch_path = IF fetch THEN FetchPath(fetcher.headcount)
                                                 ELSE fetcher.fetch_path,
                         !.alternative_rome_codes =
                             IF low /\ ~invalid
                               THEN AlternativeRomeCodes(es_count, rome, fetcher.distance)
                               ELSE << >>,
                         !.alternative_distances =
                             IF low /\ ~invalid
                               THEN AlternativeDistances(es_count, rome, fetcher.distance)
                               ELSE << >>]
    /\ UNCHANGED <<es_count, query, shuffle, pm>>

(***************************************************************************)
(* Fetcher.get_company_count and Fetcher.get_companies_for_rome_and_naf_   *)
(* codes called on their own (the count path and the fetch path), as far   *)
(* as the query they build.                                                *)
(***************************************************************************)
GetCompanyCount ==
    /\ fetcher.pc = "constructed"
    /\ ~fetcher.count_path.called
    /\ fetcher' = [fetcher EXCEPT !.count_path = CountPath(fetcher.headcount)]
    /\ UNCHANGED <<es_count, query, shuffle, pm>>

GetCompaniesForRomeAndNafCodes ==
    /\ fetcher.pc = "constructed"
    /\ ~fetcher.fetch_path.called
    /\ fetcher' = [fetcher EXCEPT !.fetch_path = FetchPath(fetcher.headcount)]
    /\ UNCHANGED <<es_count, query, shuffle, pm>>

(***************************************************************************)
(* shuffle_companies.                                                      *)
(* A candidate is [siret, score, stars, distance]: score is the base score *)
(* of the office, stars the value of get_stars_for_rome_code(rome_code) in *)
(* tenths of a star (0..50), distance the distance in km.                  *)
(***************************************************************************)
\* The bucket key of one candidate. The key of a boosted office is 100
\* stars, i.e. 1000 tenths.
BucketKey(company, distance_sort) ==
    IF distance_sort THEN company.distance
    ELSE IF company.score = 100 THEN 100 * 10
    ELSE company.stars

\* The ordered dictionary key -> list, as a sequence of [key, items] in the
\* order the keys were inserted: the bucketing loop from candidate k on.
RECURSIVE FillBuckets(_, _, _, _)
FillBuckets(companies, distance_sort, k, buckets) ==
    IF k > Len(companies) THEN buckets
    ELSE LET company == companies[k]
             key == BucketKey(company, distance_sort)
             known == \E b \in 1..Len(buckets) : buckets[b].key = key
             added ==
               IF known
                 THEN [b \in 1..Len(buckets) |->
                         IF buckets[b].key = key
                           THEN [buckets[b] EXCEPT !.items = Append(@, company)]
                           ELSE buckets[b]]
                 ELSE Append(buckets, [key |-> key, items |-> <<company>>])
         IN  FillBuckets(companies, distance_sort, k + 1, added)

\* x with the elements at (1-based) positions a and b exchanged.
Swap(x, a, b) ==
    [n \in 1..Len(x) |-> IF n = a THEN x[b] ELSE IF n = b THEN x[a] ELSE x[n]]

\* random.shuffle(x, lambda: shuffle_seed) with shuffle_seed = day / 366.0:
\* for i from len(x)-1 down to 1, j = int(shuffle_seed * (i + 1)) and
\* x[i], x[j] are exchanged (0-based). x[j] with j = len(x) raises
\* IndexError. int(day / 366.0 * (i + 1)) equals floor(day * (i + 1) / 366)
\* for every i + 1 < 183.
SwapIndex(day, i) == (day * (i + 1)) \div 366

RECURSIVE ShuffleLoop(_, _, _)
ShuffleLoop(x, i, day) ==
    IF i < 1 THEN [error |-> FALSE, list |-> x]
    ELSE LET j == SwapIndex(day, i)
         IN  IF j >= Len(x)
               THEN [error |-> TRUE, list |-> x]
               ELSE ShuffleLoop(Swap(x, i + 1, j + 1), i - 1, day)

RandomShuffle(x, day) == ShuffleLoop(x, Len(x) - 1, day)

\* The loop shuffling the buckets in order, from bucket b on, and the
\* concatenation of the shuffled buckets.
RECURSIVE ShuffleBuckets(_, _, _, _)
ShuffleBuckets(buckets, day, b, acc) ==
    IF b > Len(buckets) THEN [error |-> FALSE, list |-> acc]
    ELSE LET r == RandomShuffle(buckets[b].items, day)
         IN  IF r.error THEN [error |-> TRUE, list |-> << >>]
             ELSE ShuffleBuckets(buckets, day, b + 1, acc \o r.list)

shuffle_companies(companies, distance_sort, day) ==
    ShuffleBuckets(FillBuckets(companies, distance_sort, 1, << >>), day, 1, << >>)

\* The candidates the model draws from: a boosted office, an office with 5
\* stars and base score 99, an office with 4 stars; each at 1 or 2 km.
Profiles ==
    { [score |-> 100, stars |-> 50], [score |-> 99, stars |-> 50],
      [score |-> 80, stars |-> 40] }

Candidates(n) ==
    { [siret |-> n, score |-> p.score, stars |-> p.stars, distance |-> d] :
        p \in Profiles, d \in {1, 2} }

\* Candidate lists of length len; the siret of a candidate is its position.
CandidateLists(len) ==
    { l \in [1..len -> UNION {Candidates(n) : n \in 1..len}] :
        \A n \in 1..len : l[n].siret = n }

DaysOfYear == 1..366

ShuffleCompanies ==
    /\ shuffle.pc = "called"
    /\ LET r == shuffle_companies(shuffle.companies, shuffle.distance_sort,
                                  shuffle.day_of_year)
       IN  shuffle' = [shuffle EXCEPT
                          !.pc = IF r.error THEN "IndexError" ELSE "returned",
                          !.result = r.list]
    /\ UNCHANGED <<fetcher, es_count, query, pm>>

(***************************************************************************)
(* get_companies_for_naf_codes: the fetch query, the search and the        *)
(* shuffle. An office of the index is [siret, geo, score, rome_score,      *)
(* stars]: geo its distance from the origin in tenths of a km, score its   *)
(* base score, rome_score the field score_for_rome_<code> of the index.    *)
(***************************************************************************)
\* build_json_body_elastic_search: the sort clauses.
SortAttrs(sort, rome_code) ==
    LET s == IF sort \notin {"distance", "score"} THEN "distance" ELSE sort
        distance_sort == [field |-> "_geo_distance", order |-> "asc"]
        score_sort == [field |-> IF rome_code = "None" THEN "score"
                                 ELSE "score_for_rome",
                       order |-> "desc"]
    IN  IF s = "distance" THEN <<distance_sort, score_sort>>
                          ELSE <<score_sort, distance_sort>>

\* get_companies_for_naf_codes: distance_sort, from the keyword arguments.
DistanceSort(sort_given, sort) ==
    IF sort_given THEN sort = "distance" ELSE TRUE

\* retrieve_companies_from_elastic_search: the index of the sort key read.
DistanceSortIndex(distance_sort) == IF distance_sort THEN 0 ELSE 1

\* The value of one sort clause for one office, as the index reports it in
\* hit["sort"].
SortValue(office, clause) ==
    CASE clause.field = "_geo_distance" -> office.geo
      [] clause.field = "score" -> office.score
      [] OTHER -> office.rome_score

\* a is ahead of b, or ties with it, under the sort clauses from clause k.
RECURSIVE NotAfter(_, _, _, _)
NotAfter(a, b, sort_attrs, k) ==
    IF k > Len(sort_attrs) THEN TRUE
    ELSE LET va == SortValue(a, sort_attrs[k])
             vb == SortValue(b, sort_attrs[k])
         IN  IF va = vb THEN NotAfter(a, b, sort_attrs, k + 1)
             ELSE IF sort_attrs[k].order = "asc" THEN va < vb ELSE va > vb

\* es.search: the orders in which the index may return the matched offices.
EsSearch(matches, sort_attrs) ==
    { h \in [1..Cardinality(matches) -> matches] :
        /\ \A m, n \in DOMAIN h : m # n => h[m] # h[n]
        /\ \A m, n \in DOMAIN h : m < n => NotAfter(h[m], h[n], sort_attrs, 1) }

\* int(round(x)) of a non-negative x given in tenths.
IntRound(tenths) == (tenths + 5) \div 10

\* retrieve_companies_from_elastic_search: the companies, each with the
\* distance read from its hit.
RetrieveCompanies(hits, sort_attrs, distance_sort) ==
    [n \in 1..Len(hits) |->
        [siret |-> hits[n].siret,
         score |-> hits[n].score,
         stars |-> hits[n].stars,
         distance |-> IntRound(SortValue(hits[n],
                         sort_attrs[DistanceSortIndex(distance_sort) + 1]))]]

\* The offices of the index in the model.
Offices ==
    { [siret |-> 1, geo |-> 12, score |-> 100, rome_score |-> 90, stars |-> 45],
      [siret |-> 2, geo |-> 12, score |-> 60,  rome_score |-> 90, stars |-> 45],
      [siret |-> 3, geo |-> 38, score |-> 80,  rome_score |-> 95, stars |-> 48],
      [siret |-> 4, geo |-> 71, score |-> 99,  rome_score |-> 40, stars |-> 20] }

SortValues == {"distance", "score", "alphabetical", "None"}

GetCompaniesForNafCodes ==
    /\ query.pc = "called"
    /\ LET sort_attrs == SortAttrs(IF query.sort_given THEN query.sort
                                                       ELSE "distance",
                                   query.rome_code)
           distance_sort == DistanceSort(query.sort_given, query.sort)
       IN  \E hits \in EsSearch(query.matches, sort_attrs) :
             LET companies == RetrieveCompanies(hits, sort_attrs, distance_sort)
                 r == shuffle_companies(companies, distance_sort, query.day_of_year)
             IN  query' = [query EXCEPT
                    !.pc = IF r.error THEN "IndexError" ELSE "returned",
                    !.sort_attrs = sort_attrs,
                    !.hits = hits,
                    !.distance_sort_index = DistanceSortIndex(distance_sort),
                    !.shuffle_by_distance = distance_sort,
                    !.companies = companies,
                    !.result = r.list]
    /\ UNCHANGED <<fetcher, es_count, shuffle, pm>>

(***************************************************************************)
(* web/pagination.py: Page. A page is [ranking, company_count,             *)
(* current_from_number].                                                   *)
(***************************************************************************)
NewPage(ranking, company_count, current_from_number) ==
    [ranking |-> ranking, company_count |-> company_count,
     current_from_number |-> current_from_number]

get_from_number(page) == 1 + page.ranking * 10

\* The end of the page without the cap at the count.
get_to_number_Uncapped(page) == (page.ranking + 1) * 10

get_to_number(page) ==
    IF (page.ranking + 1) * 10 < page.company_count
      THEN (page.ranking + 1) * 10 ELSE page.company_count

is_active(page) == get_from_number(page) = page.current_from_number

(***************************************************************************)
(* web/pagination.py: PaginationManager.                                   *)
(***************************************************************************)
get_current_page(current_from_number) == 1 + (current_from_number \div 10)

get_page_count(company_count) ==
    1 + ((company_count - 1) \div PAGINATION_COMPANIES_PER_PAGE)

\* <<min_page, max_page>>
get_lower_and_upper_pages(company_count, current_from_number) ==
    LET page_count == get_page_count(company_count)
        current_page == get_current_page(current_from_number)
        half == PAGINATION_MAX_PAGES \div 2
    IN  IF current_page < half + 1
          THEN <<0, IF PAGINATION_MAX_PAGES < page_count
                      THEN PAGINATION_MAX_PAGES ELSE page_count>>
          ELSE LET max_page == IF current_page + half < page_count
                                 THEN current_page + half ELSE page_count
               IN  IF max_page = page_count
                     THEN <<IF 1 > page_count - PAGINATION_MAX_PAGES
                              THEN 1 ELSE page_count - PAGINATION_MAX_PAGES,
                            max_page>>
                     ELSE <<IF 0 > current_page - half - 1
                              THEN 0 ELSE current_page - half - 1,
                            max_page>>

\* _run: one Page per ranking of range(min_page, max_page).
RunPages(company_count, current_from_number) ==
    LET lu == get_lower_and_upper_pages(company_count, current_from_number)
        n == IF lu[2] > lu[1] THEN lu[2] - lu[1] ELSE 0
    IN  [k \in 1..n |-> NewPage(lu[1] + k - 1, company_count, current_from_number)]

show_first_page(company_count, current_from_number) ==
    get_lower_and_upper_pages(company_count, current_from_number)[1] > 1

show_last_page(company_count, current_from_number) ==
    get_lower_and_upper_pages(company_count, current_from_number)[2]
        < get_page_count(company_count)

get_first_page(company_count, current_from_number) ==
    NewPage(0, company_count, current_from_number)

get_last_page(company_count, current_from_number) ==
    NewPage(get_page_count(company_count) - 1, company_count, current_from_number)

\* PaginationManager.__init__; current_page is the cached _current_page, 0
\* standing for None. called and the ret_ fields record the methods called
\* so far and what they returned.
NewPaginationManager(company_count, current_from_number) ==
    [ pc |-> "constructed",
      company_count |-> company_count,
      current_from_number |-> current_from_number,
      current_page |-> 0,
      pages |-> << >>,
      called |-> {},
      ret_current_page |-> 0,
      ret_page_count |-> 0,
      ret_show_first |-> FALSE,
      ret_show_last |-> FALSE ]

\* get_current_page: computes and caches _current_page while it is unset.
CachedCurrentPage ==
    IF pm.current_page = 0 THEN get_current_page(pm.current_from_number)
                           ELSE pm.current_page

PmCall(method) ==
    /\ pm.pc = "constructed"
    /\ method \notin pm.called

GetPages ==
    /\ PmCall("get_pages")
    /\ pm' = [pm EXCEPT
                !.called = @ \cup {"get_pages"},
                !.current_page = CachedCurrentPage,
                !.pages = IF pm.pages = << >>
                            THEN RunPages(pm.company_count, pm.current_from_number)
                            ELSE pm.pages]
    /\ UNCHANGED <<fetcher, es_count, query, shuffle>>

ShowFirstPage ==
    /\ PmCall("show_first_page")
    /\ pm' = [pm EXCEPT
                !.called = @ \cup {"show_first_page"},
                !.current_page = CachedCurrentPage,
                !.ret_show_first =
                    show_first_page(pm.company_count, pm.current_from_number)]
    /\ UNCHANGED <<fetcher, es_count, query, shuffle>>

ShowLastPage ==
    /\ PmCall("show_last_page")
    /\ pm' = [pm EXCEPT
                !.called = @ \cup {"show_last_page"},
                !.current_page = CachedCurrentPage,
                !.ret_show_last =
                    show_last_page(pm.company_count, pm.current_from_number)]
    /\ UNCHANGED <<fetcher, es_count, query, shuffle>>

GetCurrentPage ==
    /\ PmCall("get_current_page")
    /\ pm' = [pm EXCEPT
                !.called = @ \cup {"get_current_page"},
                !.current_page = CachedCurrentPage,
                !.ret_current_page = CachedCurrentPage,
                !.ret_page_count = get_page_count(pm.company_count)]
    /\ UNCHANGED <<fetcher, es_count, query, shuffle>>

(***************************************************************************)
(* The results page: once get_companies has returned, the view builds a    *)
(* PaginationManager from the count and the window the Fetcher is left     *)
(* with.                                                                   *)
(***************************************************************************)
BuildPaginationManager ==
    /\ fetcher.pc = "done"
    /\ pm.pc = "idle"
    /\ pm' = NewPaginationManager(fetcher.company_count, fetcher.from_number)
    /\ UNCHANGED <<fetcher, es_count, query, shuffle>>

(***************************************************************************)
(* The index: the count it reports for every (occupation, radius). It is   *)
(* fixed for the duration of a request.                                    *)
(***************************************************************************)
EsIndex(rome, distance, primary, tiers, alt) ==
    [q \in ROME_CODES \X Radii |->
        IF q[1] = rome
          THEN IF q[2] = distance THEN primary
               ELSE IF \E k \in 1..Len(DISTANCE_TIERS) : DISTANCE_TIERS[k].distance = q[2]
                      THEN tiers[CHOOSE k \in 1..Len(DISTANCE_TIERS) :
                                    DISTANCE_TIERS[k].distance = q[2]]
                      ELSE 0
          ELSE alt[q[1]]]

IdleEs == EsIndex("R1", 10, 0, [k \in 1..Len(DISTANCE_TIERS) |-> 0], [r \in ROME_CODES |-> 0])

IdleQuery == [pc |-> "idle"]
IdleShuffle == [pc |-> "idle"]
IdlePm == [pc |-> "idle"]

(***************************************************************************)
(* Spec: get_companies over a wide range of requested windows and counts.  *)
(***************************************************************************)
Init ==
    /\ \E from \in (0 - MinWindow)..MaxFrom, to \in (0 - MinWindow)..MaxTo,
          primary \in 0..MaxCount :
         /\ fetcher = NewFetcher("R1", 10, from, to)
         /\ es_count = EsIndex("R1", 10, primary,
                               [k \in 1..Len(DISTANCE_TIERS) |-> primary],
                               [r \in ROME_CODES |-> 0])
    /\ query = IdleQuery
    /\ shuffle = IdleShuffle
    /\ pm = IdlePm

Next == GetCompanies

Spec == Init /\ [][Next]_vars

(***************************************************************************)
(* SpecFallback: get_companies over every combination of counts the index  *)
(* reports for the tiers and the alternative occupations.                  *)
(***************************************************************************)
InitFallback ==
    /\ \E occupation \in ROME_CODES, distance \in PrimaryDistances,
          primary \in 0..MaxLowCount,
          tiers \in [1..Len(DISTANCE_TIERS) -> 0..MaxTierCount],
          alt \in [ROME_CODES -> 0..MaxAltCount] :
         /\ fetcher = NewFetcher(occupation, distance, 1, 10)
         /\ es_count = EsIndex(occupation, distance, primary, tiers, alt)
    /\ query = IdleQuery
    /\ shuffle = IdleShuffle
    /\ pm = IdlePm

NextFallback == GetCompanies

SpecFallback == InitFallback /\ [][NextFallback]_vars

(***************************************************************************)
(* SpecShuffle: shuffle_companies on every candidate list, sort mode and   *)
(* day of the year.                                                        *)
(***************************************************************************)
InitShuffle ==
    /\ \E len \in 0..MaxCompanies :
       \E companies \in CandidateLists(len), distance_sort \in BOOLEAN,
          day \in DaysOfYear :
         shuffle = [pc |-> "called", companies |-> companies,
                    distance_sort |-> distance_sort, day_of_year |-> day,
                    result |-> << >>]
    /\ fetcher = IdleFetcher
    /\ es_count = IdleEs
    /\ query = IdleQuery
    /\ pm = IdlePm

NextShuffle == ShuffleCompanies

SpecShuffle == InitShuffle /\ [][NextShuffle]_vars

(***************************************************************************)
(* SpecQuery: get_companies_for_naf_codes on every sort keyword.           *)
(***************************************************************************)
InitQuery ==
    /\ \E matches \in {m \in SUBSET Offices : Cardinality(m) <= MaxMatches},
          sort_given \in BOOLEAN, sort \in SortValues,
          rome_code \in {"None", "R1"}, day \in {1, 200, 366} :
         /\ (~sort_given => sort = "None")
         /\ query = [pc |-> "called", matches |-> matches,
                     sort_given |-> sort_given, sort |-> sort,
                     rome_code |-> rome_code, day_of_year |-> day,
                     sort_attrs |-> << >>, hits |-> << >>,
                     distance_sort_index |-> 0, shuffle_by_distance |-> FALSE,
                     companies |-> << >>, result |-> << >>]
    /\ fetcher = IdleFetcher
    /\ es_count = IdleEs
    /\ shuffle = IdleShuffle
    /\ pm = IdlePm

NextQuery == GetCompaniesForNafCodes

SpecQuery == InitQuery /\ [][NextQuery]_vars

(***************************************************************************)
(* SpecPagination: a PaginationManager built for every count and current   *)
(* from, and the methods the page template calls on it.                    *)
(***************************************************************************)
InitPagination ==
    /\ \E company_count \in 0..MaxPmCount, from \in 1..MaxPmFrom :
         pm = NewPaginationManager(company_count, from)
    /\ fetcher = IdleFetcher
    /\ es_count = IdleEs
    /\ query = IdleQuery
    /\ shuffle = IdleShuffle

NextPagination ==
    \/ GetPages
    \/ ShowFirstPage
    \/ ShowLastPage
    \/ GetCurrentPage

SpecPagination == InitPagination /\ [][NextPagination]_vars

(***************************************************************************)
(* SpecHeadcount: a Fetcher built with every headcount input, and its      *)
(* count path and fetch path.                                              *)
(***************************************************************************)
InitHeadcount ==
    /\ \E occupation \in ROME_CODES, distance \in PrimaryDistances,
          headcount \in Headcounts, primary \in 0..MaxHcCount :
         /\ fetcher = NewFetcherWithHeadcount(occupation, distance, 1, 10, headcount)
         /\ es_count = EsIndex(occupation, distance, primary,
                               [k \in 1..Len(DISTANCE_TIERS) |-> primary],
                               [r \in ROME_CODES |-> 0])
    /\ query = IdleQuery
    /\ shuffle = IdleShuffle
    /\ pm = IdlePm

NextHeadcount ==
    \/ GetCompanyCount
    \/ GetCompaniesForRomeAndNafCodes
    \/ GetCompanies

SpecHeadcount == InitHeadcount /\ [][NextHeadcount]_vars

(***************************************************************************)
(* SpecResultsPage: a request for every window and count, get_companies,   *)
(* then the PaginationManager of the results page and its page links.      *)
(***************************************************************************)
InitResultsPage ==
    /\ \E from \in (0 - MinWindow)..MaxPmFrom, primary \in 0..MaxPmCount :
       \E to \in (from - 1)..(from + MaxSpan) :
         /\ fetcher = NewFetcher("R1", 10, from, to)
         /\ es_count = EsIndex("R1", 10, primary,
                               [k \in 1..Len(DISTANCE_TIERS) |-> primary],
                               [r \in ROME_CODES |-> 0])
    /\ query = IdleQuery
    /\ shuffle = IdleShuffle
    /\ pm = IdlePm

NextResultsPage ==
    \/ GetCompanies
    \/ BuildPaginationManager
    \/ GetPages

SpecResultsPage == InitResultsPage /\ [][NextResultsPage]_vars

(***************************************************************************)
(* Properties of Fetcher.get_companies.                                    *)
(***************************************************************************)
Done == fetcher.pc = "done"

Min(a, b) == IF a < b THEN a ELSE b

\* The count the index reports for tier k of the primary occupation.
TierCount(k) == es_count[<<fetcher.rome, DISTANCE_TIERS[k].distance>>]

\* Tier k has an entry in alternative_distances.
TierListed(k) ==
    \E i \in 1..Len(fetcher.alternative_distances) :
        fetcher.alternative_distances[i].distance = DISTANCE_TIERS[k].distance

\* C1: after get_companies the window left in from_number/to_number
\* satisfies 1 <= from <= to <= count + 1 and to - from <= the configured
\* maximum page span, for every requested (from, to) and every count >= 0.
C1_ClampedWindowInBounds ==
    Done =>
        /\ 1 <= fetcher.from_number
        /\ fetcher.from_number <= fetcher.to_number
        /\ fetcher.to_number <= fetcher.company_count + 1
        /\ fetcher.to_number - fetcher.from_number <= PAGINATION_COMPANIES_PER_PAGE

\* C4 as amended: when the tiers are evaluated (primary count below 10),
\* the entries of alternative_distances are in tier order with strictly
\* increasing counts, each entry carries the count of its tier, and a tier
\* is present exactly when its count is positive and strictly exceeds the
\* count of every tier evaluated before it.
C4_FallbackMonotone ==
    (Done /\ fetcher.company_count < 10) =>
        LET alt == fetcher.alternative_distances
        IN  /\ \A i, j \in 1..Len(alt) :
                 i < j => /\ alt[i].count < alt[j].count
                          /\ alt[i].distance < alt[j].distance
            /\ \A i \in 1..Len(alt) :
                 \E k \in 1..Len(DISTANCE_TIERS) :
                    /\ alt[i].distance = DISTANCE_TIERS[k].distance
                    /\ alt[i].label = DISTANCE_TIERS[k].label
                    /\ alt[i].count = TierCount(k)
            /\ \A k \in 1..Len(DISTANCE_TIERS) :
                 TierListed(k) <=>
                    /\ TierCount(k) > 0
                    /\ \A j \in 1..(k - 1) : TierCount(k) > TierCount(j)

\* C4 witness: the first tier reports 0 and is left out, the second tier
\* reports 2 and is listed, the third ties it and is left out.
C4_Witness ==
    /\ Done /\ fetcher.company_count < 10
    /\ TierCount(1) = 0 /\ TierCount(2) = 2 /\ TierCount(3) = 2
    /\ Len(fetcher.alternative_distances) = 1
    /\ fetcher.alternative_distances[1].distance = 50

\* C4 as stated: a tier is present exactly when its count strictly exceeds
\* the count of every tier evaluated before it (and the counts listed are
\* strictly increasing).
C4_Original ==
    (Done /\ fetcher.company_count < 10) =>
        /\ \A i, j \in 1..Len(fetcher.alternative_distances) :
             i < j => fetcher.alternative_distances[i].count
                        < fetcher.alternative_distances[j].count
        /\ \A k \in 1..Len(DISTANCE_TIERS) :
             TierListed(k) <=> \A j \in 1..(k - 1) : TierCount(k) > TierCount(j)

\* C5 as amended: when the primary search runs at 30 km and returns a
\* count c below 10, the 30 km tier is listed exactly when c >= 1, with
\* count c, and every larger tier listed has a count strictly above c.
C5_PrimaryTierListed ==
    (Done /\ fetcher.distance = 30 /\ fetcher.company_count < 10) =>
        LET alt == fetcher.alternative_distances
        IN  /\ TierListed(1) <=> fetcher.company_count >= 1
            /\ \A i \in 1..Len(alt) :
                 IF alt[i].distance = 30
                   THEN alt[i].count = fetcher.company_count
                   ELSE alt[i].count > fetcher.company_count

\* C5 witness: primary search at 30 km with 3 results; the 30 km tier is
\* listed with 3 ahead of a larger tier.
C5_Witness ==
    /\ Done /\ fetcher.distance = 30 /\ fetcher.company_count = 3
    /\ Len(fetcher.alternative_distances) = 2
    /\ fetcher.alternative_distances[1].distance = 30
    /\ fetcher.alternative_distances[1].count = 3

\* C5 as stated: when the primary search runs at 30 km and returns a count
\* below 10, the 30 km tier is never listed; only larger tiers that
\* strictly beat the 30 km count are.
C5_Original ==
    (Done /\ fetcher.distance = 30 /\ fetcher.company_count < 10) =>
        /\ ~TierListed(1)
        /\ \A i \in 1..Len(fetcher.alternative_distances) :
             fetcher.alternative_distances[i].count > fetcher.company_count

\* C6: after get_companies, with a primary count below 10 the keys of
\* alternative_rome_codes are the mobility list of the primary occupation
\* minus the primary code, each mapped to its count at the original radius
\* (0 included); with a primary count of 10 or more alternative_rome_codes
\* and alternative_distances are both empty.
C6_AlternativeOccupations ==
    Done =>
        LET mob == ROME_MOBILITIES[fetcher.rome]
            alt == fetcher.alternative_rome_codes
        IN  IF fetcher.company_count < 10
              THEN /\ DOMAIN alt = {r \in ROME_CODES :
                                      /\ r # fetcher.rome
                                      /\ \E k \in 1..Len(mob) : mob[k] = r}
                   /\ \A r \in DOMAIN alt :
                        alt[r] = es_count[<<r, fetcher.distance>>]
              ELSE /\ DOMAIN alt = {}
                   /\ Len(fetcher.alternative_distances) = 0

\* C6 witness: occupation R1 with fewer than 10 results; R2 and R3 are
\* listed, R2 with a count of 0, and R1 itself is not.
C6_Witness ==
    /\ Done /\ fetcher.rome = "R1" /\ fetcher.company_count < 10
    /\ DOMAIN fetcher.alternative_rome_codes = {"R2", "R3"}
    /\ fetcher.alternative_rome_codes["R2"] = 0
    /\ fetcher.alternative_rome_codes["R3"] = 1

\* A request whose from is below 1 or off the page grid.
MisalignedRequest ==
    \/ fetcher.requested_from < 1
    \/ (fetcher.requested_from - 1) % 10 # 0

\* C7 as amended: a request with from < 1 or (from - 1) mod 10 # 0 ends
\* clamping with from = 1 and to = min(10, count + 1).
C7_MisalignedResetsToPageOne ==
    (Done /\ MisalignedRequest) =>
        /\ fetcher.from_number = 1
        /\ fetcher.to_number = Min(10, fetcher.company_count + 1)

\* C7 witness: from=15, to=24 with 3 results ends as from=1, to=4.
C7_Witness ==
    /\ Done
    /\ fetcher.requested_from = 15 /\ fetcher.requested_to = 24
    /\ fetcher.company_count = 3
    /\ fetcher.from_number = 1 /\ fetcher.to_number = 4

\* C7 as stated: a request with from < 1 or (from - 1) mod 10 # 0 ends
\* clamping with from = 1 and to = 10, whatever the count.
C7_Original ==
    (Done /\ MisalignedRequest) =>
        /\ fetcher.from_number = 1
        /\ fetcher.to_number = 10

(***************************************************************************)
(* Properties of shuffle_companies.                                        *)
(***************************************************************************)
\* The number of positions of list l holding x.
Occurrences(l, x) == Cardinality({n \in 1..Len(l) : l[n] = x})

\* The key of the candidate at position n of list l.
KeyAt(l, n) == BucketKey(l[n], shuffle.distance_sort)

\* The first position of list l whose candidate has the key of position n.
FirstSeen(l, n) ==
    CHOOSE m \in 1..n :
        /\ KeyAt(l, m) = KeyAt(l, n)
        /\ \A q \in 1..(m - 1) : KeyAt(l, q) # KeyAt(l, n)

\* out is a permutation of in, made of one segment per key, the segments in
\* the order the keys were first seen in in.
BucketwisePermutation(in, out) ==
    /\ Len(out) = Len(in)
    /\ \A n \in 1..Len(in) : Occurrences(out, in[n]) = Occurrences(in, in[n])
    /\ \A m, n \in 1..Len(out) :
         m < n =>
            LET posm == CHOOSE q \in 1..Len(in) : in[q] = out[m]
                posn == CHOOSE q \in 1..Len(in) : in[q] = out[n]
            IN  FirstSeen(in, posm) <= FirstSeen(in, posn)

\* C2: for every candidate list and either sort mode, shuffle_companies
\* returns a permutation of its input that is the concatenation of the
\* buckets in the order their keys were first seen, no candidate leaving
\* the segment of its key.
C2_ShuffleIsBucketwisePermutation ==
    shuffle.pc # "called" =>
        /\ shuffle.pc = "returned"
        /\ BucketwisePermutation(shuffle.companies, shuffle.result)

\* On the days before the 366th the call returns, and what it returns is
\* the bucketwise permutation.
ShuffleReturnsBeforeDay366 ==
    (shuffle.pc # "called" /\ shuffle.day_of_year < 366) =>
        /\ shuffle.pc = "returned"
        /\ BucketwisePermutation(shuffle.companies, shuffle.result)

\* Whatever the day, a returned list is the bucketwise permutation.
ShuffleResultIsBucketwisePermutation ==
    shuffle.pc = "returned" =>
        BucketwisePermutation(shuffle.companies, shuffle.result)

\* C3: in BY_SCORE mode every candidate of base score 100 is, in the
\* output, ahead of every candidate of base score below 100.
C3_BoostedFirst ==
    (shuffle.pc = "returned" /\ ~shuffle.distance_sort) =>
        \A m, n \in 1..Len(shuffle.result) :
            (shuffle.result[m].score = 100 /\ shuffle.result[n].score < 100)
                => m < n

(***************************************************************************)
(* Properties of get_companies_for_naf_codes.                              *)
(***************************************************************************)
\* C10: for every sort keyword (distance, score, unrecognized or absent)
\* the sort key the distance is read from is the geo-distance clause of the
\* sort list of the query (index 0 when distance is the primary sort, 1
\* otherwise), and the shuffle buckets by distance exactly when distance is
\* the primary sort.
C10_DistanceKeyMatchesSort ==
    query.pc \in {"returned", "IndexError"} =>
        /\ query.sort_attrs[query.distance_sort_index + 1].field = "_geo_distance"
        /\ query.distance_sort_index =
              (IF query.sort_attrs[1].field = "_geo_distance" THEN 0 ELSE 1)
        /\ query.shuffle_by_distance <=>
              (query.sort_attrs[1].field = "_geo_distance")

\* With the keyword absent, "distance" or "score" the distance key and the
\* bucketing follow the sort list.
DistanceKeyMatchesRecognisedSort ==
    (/\ query.pc \in {"returned", "IndexError"}
     /\ (query.sort_given => query.sort \in {"distance", "score"})) =>
        /\ query.sort_attrs[query.distance_sort_index + 1].field = "_geo_distance"
        /\ query.shuffle_by_distance <=>
              (query.sort_attrs[1].field = "_geo_distance")

(***************************************************************************)
(* Properties of PaginationManager.                                        *)
(***************************************************************************)
\* The page of ranking r is one of the links returned by get_pages.
InWindow(r) == \E k \in 1..Len(pm.pages) : pm.pages[k].ranking = r

\* The ranking of the last page.
LastRanking == get_last_page(pm.company_count, pm.current_from_number).ranking

\* The current window is one the window rules of get_companies leave for
\* a page that exists: from on the page grid and not above the count.
DisplayedWindow ==
    /\ (pm.current_from_number - 1) % 10 = 0
    /\ pm.current_from_number <= pm.company_count

\* C8: for every count >= 1 and every current window, page 1 is a link of
\* the sliding window or show_first_page() is true, the last page is a link
\* of the sliding window or show_last_page() is true, and each explicit
\* link is offered exactly when its page is outside the window. Stated here
\* for the windows of pages that exist.
C8_BoundaryPagesShown ==
    (/\ pm.pc = "constructed"
     /\ pm.company_count >= 1
     /\ DisplayedWindow
     /\ {"get_pages", "show_first_page", "show_last_page"} \subseteq pm.called) =>
        /\ InWindow(0) \/ pm.ret_show_first
        /\ InWindow(LastRanking) \/ pm.ret_show_last
        /\ pm.ret_show_first <=> ~InWindow(0)
        /\ pm.ret_show_last <=> ~InWindow(LastRanking)

\* The last page is always reachable from a displayed window: it is a link
\* of the sliding window exactly when show_last_page() is false.
LastPageShown ==
    (/\ pm.pc = "constructed"
     /\ pm.company_count >= 1
     /\ DisplayedWindow
     /\ {"get_pages", "show_last_page"} \subseteq pm.called) =>
        (pm.ret_show_last <=> ~InWindow(LastRanking))

\* C9: for every count >= 1 and every current from >= 1 the page count is
\* 1 + floor((count - 1) / pageSize) and the current page index is
\* 1 + floor((from - 1) / pageSize).
C9_PageCountAndCurrentPage ==
    (/\ pm.pc = "constructed"
     /\ pm.company_count >= 1
     /\ pm.current_from_number >= 1
     /\ "get_current_page" \in pm.called) =>
        /\ pm.ret_page_count =
              1 + ((pm.company_count - 1) \div PAGINATION_COMPANIES_PER_PAGE)
        /\ pm.ret_current_page =
              1 + ((pm.current_from_number - 1) \div PAGINATION_COMPANIES_PER_PAGE)

(***************************************************************************)
(* Properties of the headcount filter.                                     *)
(***************************************************************************)
\* The headcount input is None or a string that is no number.
MalformedHeadcount == fetcher.headcount.kind \in {"none", "text"}

\* A path that ran built a query with no headcount filter and raised
\* nothing.
DegradedToAny(path) ==
    path.called => (path.error = "none" /\ path.filter = NoFilter)

\* C11: for every non-numeric or absent (None) headcount input, the count
\* path and the fetch path both build a query with no headcount filter and
\* raise no error.
C11_MalformedHeadcountDegrades ==
    MalformedHeadcount =>
        /\ DegradedToAny(fetcher.count_path)
        /\ DegradedToAny(fetcher.fetch_path)
        /\ fetcher.pc \notin {"TypeError", "ValueError"}

\* A string that is no number degrades to no filter on both paths.
TextHeadcountDegrades ==
    fetcher.headcount.kind = "text" =>
        /\ DegradedToAny(fetcher.count_path)
        /\ DegradedToAny(fetcher.fetch_path)
        /\ fetcher.pc \notin {"TypeError", "ValueError"}

\* Every malformed headcount degrades to no filter on the fetch path.
MalformedHeadcountDegradesOnFetch ==
    MalformedHeadcount => DegradedToAny(fetcher.fetch_path)

(***************************************************************************)
(* Properties of the day-seeded shuffle.                                   *)
(***************************************************************************)
\* Every step i of the shuffle of a bucket of length 2..MaxBucketLen picks,
\* on the given day, a swap index j with 0 <= j <= i.
SwapIndicesInBucket(day) ==
    \A n \in 2..MaxBucketLen :
        \A i \in 1..(n - 1) :
            0 <= SwapIndex(day, i) /\ SwapIndex(day, i) <= i

\* The buckets of the candidate list of the call.
InputBuckets == FillBuckets(shuffle.companies, shuffle.distance_sort, 1, << >>)

\* C12: for every day of the year d in 1..366 and every bucket length
\* n >= 2, each step i of the shuffle picks j = floor((d/366) * (i+1)) with
\* 0 <= j <= i, and shuffle_companies completes without error on every
\* day, day 366 included. Stated for the buckets of the call.
C12_ShuffleStaysInBucket ==
    shuffle.pc # "called" =>
        /\ \A b \in 1..Len(InputBuckets) :
              \A i \in 1..(Len(InputBuckets[b].items) - 1) :
                 /\ 0 <= SwapIndex(shuffle.day_of_year, i)
                 /\ SwapIndex(shuffle.day_of_year, i) <= i
        /\ shuffle.pc # "IndexError"

\* On the days 1..365 the swap indices stay in the bucket and the call
\* ends without error.
ShuffleStaysInBucketBeforeDay366 ==
    (shuffle.pc # "called" /\ shuffle.day_of_year < 366) =>
        /\ SwapIndicesInBucket(shuffle.day_of_year)
        /\ shuffle.pc # "IndexError"

(***************************************************************************)
(* Properties of the results page.                                         *)
(***************************************************************************)
\* The page links of get_pages that are active.
ActivePages == {k \in 1..Len(pm.pages) : is_active(pm.pages[k])}

\* The page links of a results page with at least one result have been
\* computed.
PagesRendered ==
    /\ fetcher.pc = "done"
    /\ pm.pc = "constructed"
    /\ pm.company_count >= 1
    /\ "get_pages" \in pm.called

\* C13: for every requested (from, to) and every count >= 1, once the
\* request has been clamped by get_companies and the clamped from and the
\* count given to the PaginationManager, exactly one Page of get_pages is
\* active.
C13_ExactlyOneActivePage ==
    PagesRendered => Cardinality(ActivePages) = 1

\* Exactly one page is active whenever the clamped from is not above the
\* count, and never more than one is.
OneActivePageWithinCount ==
    PagesRendered =>
        /\ Cardinality(ActivePages) <= 1
        /\ fetcher.from_number <= fetcher.company_count
              => Cardinality(ActivePages) = 1

(***************************************************************************)
(* Properties of the page links.                                           *)
(***************************************************************************)
\* Every Page a PaginationManager hands out: the links of get_pages, the
\* first page and the last page.
GeneratedPages ==
    {pm.pages[k] : k \in 1..Len(pm.pages)}
        \cup {get_first_page(pm.company_count, pm.current_from_number),
              get_last_page(pm.company_count, pm.current_from_number)}

\* The window rules of get_companies leave the window of the page as it is.
RoundTrips(page) ==
    ClampWindow(get_from_number(page), get_to_number(page), page.company_count)
        = [from_number |-> get_from_number(page),
           to_number |-> get_to_number(page)]

\* C14: for every count >= 1 and every Page generated by the
\* PaginationManager (window links, first and last link), requesting the
\* link's (get_from_number, get_to_number) with the same count leaves the
\* window unchanged by the window rules of get_companies.
C14_PageLinksRoundTrip ==
    (/\ pm.pc = "constructed"
     /\ pm.company_count >= 1
     /\ "get_pages" \in pm.called) =>
        \A page \in GeneratedPages : RoundTrips(page)

\* C14 witness: 25 results; the link of the third page, 21..25, is in the
\* window of get_pages.
C14_Witness ==
    /\ pm.pc = "constructed"
    /\ pm.company_count = 25
    /\ "get_pages" \in pm.called
    /\ \E k \in 1..Len(pm.pages) :
          /\ get_from_number(pm.pages[k]) = 21
          /\ get_to_number(pm.pages[k]) = 25

(***************************************************************************)
(* Properties of the fetch window.                                         *)
(***************************************************************************)
\* get_companies has run past the geocoding.
Returned == fetcher.pc \notin {"constructed", "LocationError"}

\* C15: for every requested (from, to) and every count, the window that
\* get_companies passes to the fetch query has from >= 1 and to >= from,
\* build_json_body_elastic_search never raises "to_number < from_number",
\* and no fetch is issued when the count is 0.
C15_FetchWindowValid ==
    Returned =>
        /\ fetcher.pc # "InvalidWindow"
        /\ fetcher.fetched <=> fetcher.company_count # 0
        /\ fetcher.fetched =>
              /\ fetcher.fetch_from >= 1
              /\ fetcher.fetch_to >= fetcher.fetch_from

\* C15 witness: a request with to below from (from=11, to=5) and 20
\* results; the fetch is issued for the window 1..10.
C15_Witness ==
    /\ fetcher.pc = "done"
    /\ fetcher.requested_from = 11 /\ fetcher.requested_to = 5
    /\ fetcher.company_count = 20
    /\ fetcher.fetched
    /\ fetcher.fetch_from = 1 /\ fetcher.fetch_to = 10

====
